---- MODULE Spec2Model ----
(***************************************************************************)
(* Backbone.Pipe (backbone.plumber.js): the ViewController registry.       *)
(* The registry keeps three JavaScript objects used as maps (_views,       *)
(* _indexByModel, _indexByCustom) and a `length` attribute.  Views and     *)
(* models are the host framework's objects; a view is referred to by its   *)
(* cid and its fields live in `heap`.                                      *)
(***************************************************************************)
EXTENDS Integers, Sequences, FiniteSets, TLC

\* Number of view objects constructed during a run.
MaxViews == 2

\* JavaScript values that the code tests for or that a failing call produces.
Undefined == "undefined"
Null == "null"
TypeError == "TypeError"

\* The cids handed out to views in construction order (_.uniqueId('view')).
Cids == <<"view1", "view2", "view3", "view4">>

\* Model objects a view can be bound to: two Backbone models and one plain
\* object (no cid, no attributes, no toJSON).
Models == {"M1", "M2", "P"}

ModelCid(model) ==
    CASE model = "M1" -> "c1"
      [] model = "M2" -> "c2"
      [] OTHER -> Undefined

HasAttributes(model) == model \in {"M1", "M2"}

\* Custom index arguments: omitted, or one of two keys.
CustomArgs == {Undefined, "k1", "k2"}

\* JavaScript truthiness of a customIndex argument.
Truthy(x) == x \notin {Undefined, Null, ""}

\* The (ViewType, options) pairs views are constructed from: which model the
\* options bind, whether a collection is bound, whether the type declares a
\* template.
ViewKinds ==
    { [model |-> "M1", collection |-> FALSE, template |-> TRUE],
      [model |-> "M2", collection |-> FALSE, template |-> FALSE],
      [model |-> "P", collection |-> FALSE, template |-> TRUE],
      [model |-> Undefined, collection |-> TRUE, template |-> TRUE],
      [model |-> Undefined, collection |-> FALSE, template |-> TRUE] }

VARIABLES
    heap,            \* cid -> the view object with that cid
    _views,          \* this._views: view cid -> view
    _indexByModel,   \* this._indexByModel: model cid -> view cid
    _indexByCustom,  \* this._indexByCustom: custom key -> view cid, as the
                     \* entries [key, cid] in the object's enumeration order
    length,          \* this.length: <<>> while never assigned, else <<n>>
    log,             \* calls the last operation made on its view, in order
    last,            \* the last call: operation, arguments, outcome
    pre,             \* the registry as it was when the last call started
    removed          \* cids taken out of _views and not stored since

vars == <<heap, _views, _indexByModel, _indexByCustom, length, log, last, pre,
          removed>>

----------------------------------------------------------------------------
\* JavaScript objects used as maps.

EmptyMap == [k \in {} |-> Undefined]

Get(map, key) == IF key \in DOMAIN map THEN map[key] ELSE Undefined

Put(map, key, val) ==
    [k \in (DOMAIN map) \cup {key} |-> IF k = key THEN val ELSE map[k]]

Delete(map, key) == [k \in (DOMAIN map) \ {key} |-> map[k]]

\* The same for an object whose enumeration order matters.  Own string keys
\* are enumerated in the order they were first assigned; assigning to a key
\* already present keeps its place, deleting a key removes its entry.
EmptyObject == <<>>

Keys(obj) == {obj[i].key : i \in 1..Len(obj)}

Position(obj, key) == CHOOSE i \in 1..Len(obj) : obj[i].key = key

GetOrdered(obj, key) ==
    IF key \in Keys(obj) THEN obj[Position(obj, key)].cid ELSE Undefined

\* Assignment that always adds an entry, also for a key already present.
PutOrdered_append(obj, key, val) == Append(obj, [key |-> key, cid |-> val])

PutOrdered(obj, key, val) ==
    IF key \in Keys(obj)
    THEN [obj EXCEPT ![Position(obj, key)] = [key |-> key, cid |-> val]]
    ELSE Append(obj, [key |-> key, cid |-> val])

DeleteOrdered(obj, key) ==
    IF key \in Keys(obj)
    THEN LET p == Position(obj, key)
         IN SubSeq(obj, 1, p - 1) \o SubSeq(obj, p + 1, Len(obj))
    ELSE obj

\* The registry's fields as one value.
Registry ==
    [views |-> _views, byModel |-> _indexByModel,
     byCustom |-> _indexByCustom, length |-> length]

SetRegistry(R) ==
    /\ _views' = R.views
    /\ _indexByModel' = R.byModel
    /\ _indexByCustom' = R.byCustom
    /\ length' = R.length

Call(op, view, key, result, raised) ==
    [op |-> op, view |-> view, key |-> key, result |-> result, raised |-> raised]

----------------------------------------------------------------------------
\* View objects.

\* new ViewType(options): a fresh cid, the bound model and collection taken
\* from the options, an empty root element.
NewViewObject(cid, kind) ==
    [cid |-> cid, model |-> kind.model, collection |-> kind.collection,
     template |-> kind.template, el |-> <<>>]

NextCid == Cids[Cardinality(DOMAIN heap) + 1]

\* _updateLength with the assignment left out: this.length keeps its old value.
_updateLength_stale(views) == length

\* _.size(this._views)
_updateLength(views) == <<Cardinality(DOMAIN views)>>

----------------------------------------------------------------------------
\* storeView

\* storeView with the custom-index branch writing into the model index
\* (this._indexByModel[customIndex] = viewCid).
storeView_wrongIndex(R, view, customIndex) ==
    LET viewCid == view.cid
        views1 == Put(R.views, viewCid, viewCid)
        byModel1 ==
            IF view.model # Undefined
            THEN Put(R.byModel, ModelCid(view.model), viewCid)
            ELSE R.byModel
        byModel2 ==
            IF Truthy(customIndex)
            THEN Put(byModel1, customIndex, viewCid)
            ELSE byModel1
    IN [views |-> views1, byModel |-> byModel2, byCustom |-> R.byCustom,
        length |-> _updateLength(views1)]

storeView_registry(R, view, customIndex) ==
    LET viewCid == view.cid
        views1 == Put(R.views, viewCid, viewCid)
        byModel1 ==
            IF view.model # Undefined
            THEN Put(R.byModel, ModelCid(view.model), viewCid)
            ELSE R.byModel
        byCustom1 ==
            IF Truthy(customIndex)
            THEN PutOrdered(R.byCustom, customIndex, viewCid)
            ELSE R.byCustom
    IN [views |-> views1, byModel |-> byModel1, byCustom |-> byCustom1,
        length |-> _updateLength(views1)]

storeView(cid, customIndex) ==
    /\ cid \in DOMAIN heap
    /\ SetRegistry(storeView_registry(Registry, heap[cid], customIndex))
    /\ last' = Call("storeView", cid, customIndex, Undefined, FALSE)
    /\ pre' = Registry
    /\ log' = <<>>
    /\ removed' = removed \ {cid}
    /\ UNCHANGED heap

----------------------------------------------------------------------------
\* Construction of a view by the caller, outside the registry.
NewView(kind) ==
    /\ Cardinality(DOMAIN heap) < MaxViews
    /\ heap' = Put(heap, NextCid, NewViewObject(NextCid, kind))
    /\ last' = Call("new", NextCid, Undefined, NextCid, FALSE)
    /\ pre' = Registry
    /\ log' = <<>>
    /\ UNCHANGED <<_views, _indexByModel, _indexByCustom, length, removed>>

----------------------------------------------------------------------------
\* createView: new ViewType(options), then storeView with or without the
\* custom index; returns the view.
createView(kind, customIndex) ==
    /\ Cardinality(DOMAIN heap) < MaxViews
    /\ LET view == NewViewObject(NextCid, kind)
       IN /\ heap' = Put(heap, view.cid, view)
          /\ SetRegistry(
                IF Truthy(customIndex)
                THEN storeView_registry(Registry, view, customIndex)
                ELSE storeView_registry(Registry, view, Undefined))
          /\ last' = Call("createView", view.cid, customIndex, view.cid, FALSE)
          /\ removed' = removed \ {view.cid}
    /\ pre' = Registry
    /\ log' = <<>>

----------------------------------------------------------------------------
\* removeFromContainer with the last delete left out: the view stays in
\* this._views.
removeFromContainer_keepsView(R, view) ==
    LET viewCid == view.cid
        byModel1 ==
            IF view.model # Undefined
            THEN Delete(R.byModel, ModelCid(view.model))
            ELSE R.byModel
    IN [views |-> R.views, byModel |-> byModel1, byCustom |-> R.byCustom,
        length |-> _updateLength(R.views)]

\* removeFromContainer.  _.any visits the custom index in enumeration order
\* and its callback returns true at the first entry whose value is the view's
\* cid, which ends the scan: that one entry is deleted, later ones are not
\* visited.
removeFromContainer_registry(R, view) ==
    LET viewCid == view.cid
        byModel1 ==
            IF view.model # Undefined
            THEN Delete(R.byModel, ModelCid(view.model))
            ELSE R.byModel
        matching == {i \in 1..Len(R.byCustom) : R.byCustom[i].cid = viewCid}
        byCustom1 ==
            IF matching = {}
            THEN R.byCustom
            ELSE LET first == CHOOSE i \in matching : \A j \in matching : i <= j
                 IN DeleteOrdered(R.byCustom, R.byCustom[first].key)
        views1 == Delete(R.views, viewCid)
    IN [views |-> views1, byModel |-> byModel1, byCustom |-> byCustom1,
        length |-> _updateLength(views1)]

removeFromContainer(cid) ==
    /\ cid \in DOMAIN heap
    /\ SetRegistry(removeFromContainer_registry(Registry, heap[cid]))
    /\ last' = Call("removeFromContainer", cid, Undefined, Undefined, FALSE)
    /\ pre' = Registry
    /\ log' = <<>>
    /\ removed' = IF cid \in DOMAIN _views THEN removed \cup {cid} ELSE removed
    /\ UNCHANGED heap

----------------------------------------------------------------------------
\* Backbone.View.prototype.remove as overridden here, called without an
\* element: this.$el.empty(), then this.undelegateEvents().
remove_view(view) == [view EXCEPT !.el = <<>>]

remove_log == << [call |-> "empty", el |-> <<>>],
                 [call |-> "undelegateEvents", el |-> <<>>] >>

\* removeView.  The guard is `view !== null`: null returns at once; undefined
\* passes the guard and removeFromContainer raises a TypeError reading
\* view.cid, before anything is changed.
removeView(arg) ==
    /\ arg \in (DOMAIN heap) \cup {Undefined, Null}
    /\ pre' = Registry
    /\ CASE arg = Null ->
              /\ last' = Call("removeView", arg, Undefined, Undefined, FALSE)
              /\ log' = <<>>
              /\ UNCHANGED <<heap, _views, _indexByModel, _indexByCustom, length,
                             removed>>
         [] arg = Undefined ->
              /\ last' = Call("removeView", arg, Undefined, TypeError, TRUE)
              /\ log' = <<>>
              /\ UNCHANGED <<heap, _views, _indexByModel, _indexByCustom, length,
                             removed>>
         [] OTHER ->
              /\ SetRegistry(removeFromContainer_registry(Registry, heap[arg]))
              /\ heap' = [heap EXCEPT ![arg] = remove_view(heap[arg])]
              /\ log' = remove_log
              /\ last' = Call("removeView", arg, Undefined, Undefined, FALSE)
              /\ removed' = IF arg \in DOMAIN _views
                            THEN removed \cup {arg} ELSE removed

----------------------------------------------------------------------------
\* attach.  What the call does to the view, as [raised, view, log]:
\*  - a view with a collection: nothing at all;
\*  - otherwise view.model.attributes is read, which raises a TypeError on a
\*    view without a model;
\*  - the template's argument is model.toJSON() for a model with attributes
\*    and the model itself otherwise;
\*  - with a template, $el.html(template(argument)); then view.render().
\* attach with the template's output added to the root element's contents
\* ($el.append) instead of replacing them ($el.html).
attach_effect_append(view) ==
    IF view.collection
    THEN [raised |-> FALSE, view |-> view, log |-> <<>>]
    ELSE IF view.model = Undefined
    THEN [raised |-> TRUE, view |-> view, log |-> <<>>]
    ELSE
      LET snap == HasAttributes(view.model)
          model == IF snap THEN <<"toJSON", view.model>> ELSE <<view.model>>
          content == <<"template">> \o model
          el2 == IF view.template THEN view.el \o content ELSE view.el
      IN [raised |-> FALSE,
          view |-> [view EXCEPT !.el = el2],
          log |-> << [call |-> "render", el |-> el2] >>]

attach_effect(view) ==
    IF view.collection
    THEN [raised |-> FALSE, view |-> view, log |-> <<>>]
    ELSE IF view.model = Undefined
    THEN [raised |-> TRUE, view |-> view, log |-> <<>>]
    ELSE
      LET snap == HasAttributes(view.model)
          model == IF snap THEN <<"toJSON", view.model>> ELSE <<view.model>>
          log1 == IF snap THEN << [call |-> "toJSON", el |-> view.el] >> ELSE <<>>
          content == <<"template">> \o model
          el2 == IF view.template THEN content ELSE view.el
          log2 == IF view.template
                  THEN log1 \o << [call |-> "template", el |-> view.el],
                                  [call |-> "html", el |-> content] >>
                  ELSE log1
      IN [raised |-> FALSE,
          view |-> [view EXCEPT !.el = el2],
          log |-> log2 \o << [call |-> "render", el |-> el2] >>]

attach(cid) ==
    /\ cid \in DOMAIN heap
    /\ LET e == attach_effect(heap[cid])
       IN /\ heap' = [heap EXCEPT ![cid] = e.view]
          /\ log' = e.log
          /\ last' = Call("attach", cid, Undefined,
                          IF e.raised THEN TypeError ELSE Undefined, e.raised)
    /\ pre' = Registry
    /\ UNCHANGED <<_views, _indexByModel, _indexByCustom, length, removed>>

----------------------------------------------------------------------------
\* attachSingleView: view = this._views[index], then this.attach(view).  For
\* an index that is no key of _views the view is undefined, and attach raises
\* a TypeError reading view.collection.

\* A handle that was never handed out.
UnknownHandle == "view0"

attachSingleView(index) ==
    /\ index \in (DOMAIN heap) \cup {UnknownHandle}
    /\ pre' = Registry
    /\ LET view == Get(_views, index)
       IN IF view = Undefined
          THEN /\ last' = Call("attachSingleView", Undefined, index, TypeError, TRUE)
               /\ log' = <<>>
               /\ UNCHANGED heap
          ELSE LET e == attach_effect(heap[view])
               IN /\ heap' = [heap EXCEPT ![view] = e.view]
                  /\ log' = e.log
                  /\ last' = Call("attachSingleView", view, index,
                                  IF e.raised THEN TypeError ELSE Undefined,
                                  e.raised)
    /\ UNCHANGED <<_views, _indexByModel, _indexByCustom, length, removed>>

----------------------------------------------------------------------------
\* _.each(this._views, ...) visits the views in the object's enumeration
\* order.  _views is kept here as a map without that order, so a call may
\* visit the registered views in any order.
Orders(S) ==
    {o \in [1..Cardinality(S) -> S] : \A i, j \in DOMAIN o : o[i] = o[j] => i = j}

\* attachViews: this.attach(view) for each view in turn.  A TypeError raised
\* by one attach ends the loop: the views visited before it stay attached,
\* the ones after it are not visited.  The result is [raised, heap, log]; the
\* log marks each attach call and names the view of every entry.
TagView(l, cid) ==
    [i \in 1..Len(l) |-> [call |-> l[i].call, el |-> l[i].el, view |-> cid]]

RECURSIVE attachViews_effect(_, _)
attachViews_effect(order, h) ==
    IF order = <<>>
    THEN [raised |-> FALSE, heap |-> h, log |-> <<>>]
    ELSE LET cid == Head(order)
             e == attach_effect(h[cid])
             entries == << [call |-> "attach", el |-> h[cid].el, view |-> cid] >>
                        \o TagView(e.log, cid)
         IN IF e.raised
            THEN [raised |-> TRUE, heap |-> h, log |-> entries]
            ELSE LET rest == attachViews_effect(Tail(order),
                                                [h EXCEPT ![cid] = e.view])
                 IN [raised |-> rest.raised, heap |-> rest.heap,
                     log |-> entries \o rest.log]

attachViews ==
    /\ \E order \in Orders(DOMAIN _views) :
          LET r == attachViews_effect(order, heap)
          IN /\ heap' = r.heap
             /\ log' = r.log
             /\ last' = Call("attachViews", Undefined, Undefined,
                             IF r.raised THEN TypeError ELSE Undefined, r.raised)
    /\ pre' = Registry
    /\ UNCHANGED <<_views, _indexByModel, _indexByCustom, length, removed>>

----------------------------------------------------------------------------
\* apply(method, args): for each view of _views, if view[method] is a
\* function, view[method].apply(view, args || []).

\* Member names passed to apply: render (every Backbone view has it),
\* template (only the view types that declare one) and a name no view has.
Methods == {"render", "template", "customMethod"}

\* _.isFunction(view[method])
IsFunction(view, method) ==
    \/ method = "render"
    \/ method = "template" /\ view.template

\* The args parameter: left out, or the array [1, 2].
ArgLists == { [given |-> FALSE, list |-> <<>>], [given |-> TRUE, list |-> <<1, 2>>] }

\* apply without the _.isFunction test: the member is called on every view.
apply_calls_unguarded(order, h, method, args) ==
    [i \in 1..Len(order) |->
        [call |-> method, el |-> h[order[i]].el, view |-> order[i],
         args |-> IF args.given THEN args.list ELSE <<>>]]

\* The calls apply makes, in order: one per visited view that has the member
\* as a function, with the elements of args (or of [] when args is left out)
\* as its arguments.
apply_calls(order, h, method, args) ==
    LET has == SelectSeq(order, LAMBDA cid : IsFunction(h[cid], method))
    IN [i \in 1..Len(has) |->
          [call |-> method, el |-> h[has[i]].el, view |-> has[i],
           args |-> IF args.given THEN args.list ELSE <<>>]]

apply(method, args) ==
    /\ \E order \in Orders(DOMAIN _views) :
          log' = apply_calls(order, heap, method, args)
    /\ last' = [op |-> "apply", view |-> Undefined, key |-> method,
                result |-> Undefined, raised |-> FALSE, args |-> args]
    /\ pre' = Registry
    /\ UNCHANGED <<heap, _views, _indexByModel, _indexByCustom, length, removed>>

----------------------------------------------------------------------------
\* Lookups.

\* The members of ViewController.prototype: those of Backbone.Events and the
\* ones the _.extend call lists.  Calling this.<name> for a name outside this
\* set calls undefined, which raises a TypeError.
Prototype ==
    { "on", "off", "trigger", "once", "listenTo", "listenToOnce",
      "stopListening", "bind", "unbind",
      "initialize", "storeView", "removeFromContainer", "removeView",
      "attach", "createView", "apply", "attachSingleView", "attachViews",
      "_getByModel", "_getByModelCid", "_getByCustom", "_getByIndex",
      "_getByCid", "_updateLength", "_configure" }

_getByCid(cid) == Get(_views, cid)

_getByCustom(index) ==
    LET viewCid == GetOrdered(_indexByCustom, index)
    IN IF "getByCid" \in Prototype THEN _getByCid(viewCid) ELSE TypeError

_getByModelCid(modelCid) ==
    LET viewCid == Get(_indexByModel, modelCid)
    IN IF "getByCid" \in Prototype THEN _getByCid(viewCid) ELSE TypeError

_getByModel(model) ==
    IF "getByModelCid" \in Prototype
    THEN _getByModelCid(ModelCid(model))
    ELSE TypeError

----------------------------------------------------------------------------
Init ==
    /\ heap = EmptyMap
    /\ _views = EmptyMap
    /\ _indexByModel = EmptyMap
    /\ _indexByCustom = EmptyObject
    /\ length = <<>>
    /\ log = <<>>
    /\ last = Call("constructor", Undefined, Undefined, Undefined, FALSE)
    /\ pre = [views |-> EmptyMap, byModel |-> EmptyMap,
              byCustom |-> EmptyObject, length |-> <<>>]
    /\ removed = {}

Next ==
    \/ \E kind \in ViewKinds : NewView(kind)
    \/ \E cid \in DOMAIN heap, customIndex \in CustomArgs : storeView(cid, customIndex)
    \/ \E kind \in ViewKinds, customIndex \in CustomArgs : createView(kind, customIndex)
    \/ \E cid \in DOMAIN heap : removeFromContainer(cid)
    \/ \E arg \in (DOMAIN heap) \cup {Undefined, Null} : removeView(arg)
    \/ \E cid \in DOMAIN heap : attach(cid)
    \/ \E index \in (DOMAIN heap) \cup {UnknownHandle} : attachSingleView(index)
    \/ attachViews
    \/ \E method \in Methods, args \in ArgLists : apply(method, args)

Spec == Init /\ [][Next]_vars

----------------------------------------------------------------------------
\* Properties of the registry.

ModelIdsOf(h) == {m \in DOMAIN _indexByModel : _indexByModel[m] = h}
CustomKeysOf(h) == {k \in Keys(_indexByCustom) : GetOrdered(_indexByCustom, k) = h}
Size(map) == Cardinality(DOMAIN map)
Calls == {log[i].call : i \in 1..Len(log)}

\* C1: every view cid held as a value in the model index or in the custom
\* index is a key of _views (no index entry dangles).
C1_NoDanglingIndex ==
    /\ \A m \in DOMAIN _indexByModel : _indexByModel[m] \in DOMAIN _views
    /\ \A k \in Keys(_indexByCustom) :
          GetOrdered(_indexByCustom, k) \in DOMAIN _views

C3_AtMostOneKeyEach ==
    \A h \in DOMAIN _views :
        /\ Cardinality(ModelIdsOf(h)) <= 1
        /\ Cardinality(CustomKeysOf(h)) <= 1

\* C3 amended: each registered view has at most one model id mapped to its
\* cid, the cid of the model it is bound to; the custom index may hold
\* several keys for one view, one per key it was stored under.
C3_AtMostOneModelId ==
    \A h \in DOMAIN _views :
        /\ Cardinality(ModelIdsOf(h)) <= 1
        /\ \A m \in ModelIdsOf(h) :
              heap[h].model # Undefined /\ m = ModelCid(heap[h].model)

\* C3 witness: a registered view stored under two custom keys, with its one
\* model id mapped to it.
C3_Witness ==
    \E h \in DOMAIN _views :
        /\ last.op = "storeView" /\ last.view = h
        /\ Cardinality(CustomKeysOf(h)) = 2
        /\ Cardinality(ModelIdsOf(h)) = 1

\* C4: after removeFromContainer(v) of a registered view v, v's cid is no key
\* of _views and no model id and no custom key maps to it.
C4_RemovedFromAllThree ==
    (last.op = "removeFromContainer" /\ last.view \in DOMAIN pre.views)
    => /\ last.view \notin DOMAIN _views
       /\ ModelIdsOf(last.view) = {}
       /\ CustomKeysOf(last.view) = {}

\* C5: after storeView(v, k) with a non-empty key k, the custom-key lookup of
\* k returns v; after removeFromContainer(v) of a view stored under k, the
\* custom-key lookup of k returns undefined and does not raise.
C5_CustomKeyRoundTrip ==
    /\ (last.op = "storeView" /\ Truthy(last.key))
       => _getByCustom(last.key) = last.view
    /\ last.op = "removeFromContainer"
       => \A k \in Keys(pre.byCustom) :
             GetOrdered(pre.byCustom, k) = last.view
             => _getByCustom(k) = Undefined

\* C6: when v2 is stored while another registered view v1 is bound to the
\* same model m, the model-id lookup of m returns v2 and v1 is still
\* returned by the lookup of its own cid.
C6_LastStoreWinsByModel ==
    last.op \in {"storeView", "createView"}
    => \A v1 \in (DOMAIN pre.views) \ {last.view} :
          (/\ heap[last.view].model # Undefined
           /\ heap[v1].model = heap[last.view].model)
          => /\ _getByModelCid(ModelCid(heap[last.view].model)) = last.view
             /\ _getByCid(v1) = v1

\* C7: removeView of undefined or null raises nothing and leaves _views,
\* both indexes and length as they were.
C7_RemoveViewAbsentIsNoop ==
    (last.op = "removeView" /\ last.view \in {Undefined, Null})
    => /\ ~last.raised
       /\ Registry = pre

\* C8: after createView(T, {model: M}, k) the result is the new view, the
\* lookups by k, by M's cid and by the view's cid all return it and the count
\* is one more than before; after removeView of a view registered under a
\* key and its model, the count is one less and the three lookups return
\* undefined.
C8_CreateRemoveLifecycle ==
    /\ (/\ last.op = "createView"
        /\ Truthy(last.key)
        /\ heap[last.view].model \in {"M1", "M2"})
       => /\ last.result = last.view
          /\ _getByCustom(last.key) = last.view
          /\ _getByModelCid(ModelCid(heap[last.view].model)) = last.view
          /\ _getByCid(last.view) = last.view
          /\ length = <<Size(pre.views) + 1>>
    /\ (/\ last.op = "removeView"
        /\ last.view \in DOMAIN pre.views
        /\ heap[last.view].model \in {"M1", "M2"})
       => \A k \in Keys(pre.byCustom) :
             GetOrdered(pre.byCustom, k) = last.view
             => /\ length = <<Size(pre.views) - 1>>
                /\ _getByCid(last.view) = Undefined
                /\ _getByModelCid(ModelCid(heap[last.view].model)) = Undefined
                /\ _getByCustom(k) = Undefined

\* C9: attach of a view with a collection takes no snapshot, renders no
\* template, does not replace the root element's contents, and calls the
\* view's render.
C9_CollectionAttachRendersOnly ==
    (last.op = "attach" /\ heap[last.view].collection)
    => /\ Calls \cap {"toJSON", "template", "html"} = {}
       /\ "render" \in Calls

\* C10: attach of a view without a collection calls the view's render exactly
\* once; with a template, the root element is given the template's output
\* (from model.toJSON(), or from the model itself when it has no attributes)
\* before render is called.
C10_NonCollectionAttachRenders ==
    (last.op = "attach" /\ ~heap[last.view].collection)
    => LET view == heap[last.view]
           data == IF HasAttributes(view.model)
                   THEN <<"toJSON", view.model>> ELSE <<view.model>>
           renders == {i \in 1..Len(log) : log[i].call = "render"}
       IN /\ ~last.raised
          /\ Cardinality(renders) = 1
          /\ view.template
             => \E i \in 1..Len(log) :
                   /\ log[i].call = "html"
                   /\ log[i].el = <<"template">> \o data
                   /\ \A j \in renders : i < j /\ log[j].el = <<"template">> \o data

\* The names of the calls in a log, in order.
CallNames(l) == [i \in 1..Len(l) |-> l[i].call]

\* C11: attachSingleView of a handle that is no key of _views raises nothing,
\* calls nothing on any view and leaves the registry as it was; of a
\* registered handle, it does to that view what attach does.
C11_AttachSingleView ==
    last.op = "attachSingleView"
    => IF last.key \notin DOMAIN pre.views
       THEN /\ ~last.raised
            /\ log = <<>>
            /\ Registry = pre
       ELSE /\ last.view = last.key
            /\ last.raised = attach_effect(heap[last.view]).raised
            /\ CallNames(log) = CallNames(attach_effect(heap[last.view]).log)
            /\ Registry = pre

\* C12: removeFromContainer of a view that was never registered raises
\* nothing and leaves _views, both indexes and the count as they were (a
\* length that was never assigned counts as 0 here).
C12_RemoveUnregisteredIsNoop ==
    (/\ last.op = "removeFromContainer"
     /\ last.view \notin DOMAIN pre.views
     /\ last.view \notin removed)
    => /\ ~last.raised
       /\ _views = pre.views
       /\ _indexByModel = pre.byModel
       /\ _indexByCustom = pre.byCustom
       /\ length = IF pre.length = <<>> THEN <<0>> ELSE pre.length

\* C15 as stated: a cid that has been removed from the registry is never a
\* key of _views again.
C15_RemovedNeverReturns ==
    [][\A v \in removed : v \notin DOMAIN _views']_vars

\* C15 amended: a removed cid is no key of _views, and the only step that
\* makes it one again is a storeView call on that same view; createView,
\* removeFromContainer, removeView, attach, attachSingleView, attachViews and
\* apply never do.
C15_OnlyStoreViewReturns ==
    [][\A v \in removed :
          /\ v \notin DOMAIN _views
          /\ v \in DOMAIN _views' => (last'.op = "storeView" /\ last'.view = v)]_vars

\* C15 witness: with a removed view present, a new view has been created and
\* registered, and the removed one is still out of the registry.
C15_Witness ==
    \E v \in removed :
        /\ last.op = "createView"
        /\ last.view # v
        /\ last.view \in DOMAIN _views
        /\ v \notin DOMAIN _views

\* C13: the lookups by cid, by model cid and by custom key of a cid, model
\* cid or key that is not registered return undefined and raise nothing.
C13_AbsentLookups ==
    /\ \A h \in ((DOMAIN heap) \cup {UnknownHandle}) \ DOMAIN _views :
          _getByCid(h) = Undefined
    /\ \A m \in {"c1", "c2"} \ DOMAIN _indexByModel :
          _getByModelCid(m) = Undefined
    /\ \A k \in {"k1", "k2"} \ Keys(_indexByCustom) :
          _getByCustom(k) = Undefined

\* The entries of the log that are calls on view v.
CallsOn(v) == {i \in 1..Len(log) : log[i].view = v}

\* C14: apply(method, args) calls the member exactly once, with the elements
\* of args as its arguments (none when args is left out), on every registered
\* view that has it as a function, and calls nothing on any other view
\* (registered without the member, removed, or never registered); it raises
\* nothing.
C14_ApplyCallsEachOnce ==
    last.op = "apply"
    => /\ ~last.raised
       /\ \A v \in DOMAIN heap :
             IF v \in DOMAIN _views /\ IsFunction(heap[v], last.key)
             THEN /\ Cardinality(CallsOn(v)) = 1
                  /\ \A i \in CallsOn(v) :
                        /\ log[i].call = last.key
                        /\ log[i].args = IF last.args.given
                                         THEN last.args.list ELSE <<>>
             ELSE CallsOn(v) = {}

\* C14 witness: apply("template", [1, 2]) has called template(1, 2) on a
\* registered view that declares a template and skipped a registered view
\* that declares none.
C14_Witness ==
    /\ last.op = "apply"
    /\ last.key = "template"
    /\ last.args.given
    /\ \E v, w \in DOMAIN _views :
          /\ heap[v].template /\ ~heap[w].template
          /\ \E i \in CallsOn(v) : log[i].args = <<1, 2>>
          /\ CallsOn(w) = {}

\* C16: after removeView(v) of a registered view v, v is in none of _views,
\* the model index and the custom index, and the view has been released
\* (root element emptied, events undelegated); the release is only ever made
\* on a view that is out of _views when the call ends.
C16_RemoveViewDeregistersThenReleases ==
    /\ (last.op = "removeView" /\ last.view \in DOMAIN pre.views)
       => /\ last.view \notin DOMAIN _views
          /\ ModelIdsOf(last.view) = {}
          /\ CustomKeysOf(last.view) = {}
          /\ CallNames(log) = <<"empty", "undelegateEvents">>
          /\ heap[last.view].el = <<>>
    /\ (last.op = "removeView" /\ "undelegateEvents" \in Calls)
       => last.view \notin DOMAIN _views

\* C17: after attach(v) of a registered view, a second attach(v) would leave
\* the view (its root element's contents included) as the first left it, and
\* attach leaves the registry, so also whether v is registered, as it was.
C17_AttachIdempotent ==
    (last.op = "attach" /\ last.view \in DOMAIN pre.views)
    => /\ attach_effect(heap[last.view]).view = heap[last.view]
       /\ Registry = pre
       /\ last.view \in DOMAIN _views

\* C17 witness: attach has run on a registered view with a model and a
\* template whose root element already held the template's output (the
\* template was rendered over the previous attach's contents).
C17_Witness ==
    /\ last.op = "attach"
    /\ last.view \in DOMAIN _views
    /\ heap[last.view].template
    /\ heap[last.view].el # <<>>
    /\ \E i \in 1..Len(log) :
          log[i].call = "template" /\ log[i].el = heap[last.view].el

\* C18: attachViews raises nothing and calls attach exactly once on every
\* registered view and on no other view.
C18_AttachViewsEachOnce ==
    last.op = "attachViews"
    => /\ ~last.raised
       /\ \A v \in DOMAIN heap :
             Cardinality({i \in CallsOn(v) : log[i].call = "attach"})
                = IF v \in DOMAIN _views THEN 1 ELSE 0

\* C19: removeFromContainer(v) or removeView(v) of a registered view v leaves
\* every other registered view w in _views, and every model cid and custom
\* key whose index entry led to w before the call still leads to w.
C19_RemovalLeavesOthers ==
    (/\ last.op \in {"removeFromContainer", "removeView"}
     /\ last.view \in DOMAIN pre.views)
    => \A w \in (DOMAIN pre.views) \ {last.view} :
          /\ Get(_views, w) = w
          /\ \A m \in DOMAIN pre.byModel :
                pre.byModel[m] = w => Get(_indexByModel, m) = w
          /\ \A k \in Keys(pre.byCustom) :
                GetOrdered(pre.byCustom, k) = w
                => GetOrdered(_indexByCustom, k) = w

\* C20: storeView of a view that is already registered leaves the count and
\* the keys of _views as they were; storeView(v, k) made once more with the
\* same arguments would change nothing in the registry; and storeView of a
\* registered view with a key adds that key to the custom keys that map to
\* the view, keeping the ones it had.
C20_StoreAgain ==
    /\ (last.op = "storeView" /\ last.view \in DOMAIN pre.views)
       => /\ length = pre.length
          /\ DOMAIN _views = DOMAIN pre.views
          /\ Get(_views, last.view) = last.view
    /\ last.op = "storeView"
       => storeView_registry(Registry, heap[last.view], last.key) = Registry
    /\ (last.op = "storeView" /\ last.view \in DOMAIN pre.views
        /\ Truthy(last.key))
       => CustomKeysOf(last.view)
             = {k \in Keys(pre.byCustom) :
                   GetOrdered(pre.byCustom, k) = last.view} \cup {last.key}

\* C20 witness: a registered view stored under one key has been stored again
\* under a different key and now has both.
C20_Witness ==
    /\ last.op = "storeView"
    /\ last.view \in DOMAIN pre.views
    /\ \E k \in Keys(pre.byCustom) :
          /\ GetOrdered(pre.byCustom, k) = last.view
          /\ k # last.key
    /\ Cardinality(CustomKeysOf(last.view)) = 2
    /\ length = pre.length

====
